---- MODULE Spec2Model ----
(***************************************************************************)
(* The doubleroundrobin partition assignor of librdkafka                   *)
(* (src/rdkafka_doubleroundrobin_assignor.c), modelled as the state        *)
(* machine of one call of rd_kafka_doubleroundrobin_assignor_assign_cb:    *)
(* the outer loop over the eligible topics, the grouping of the sorted     *)
(* members into replica groups, and the inner loop that hands out the      *)
(* partitions of a topic, one partition per step.                          *)
(*                                                                         *)
(* Members are named by their position in the sorted members[] array       *)
(* (0 .. member_cnt-1), topics by their position in eligible_topics[].     *)
(* The result of rd_kafka_str_member_is_replicate on members[i] and        *)
(* members[i+1] is an input, status[i]: 0 (different consumers),           *)
(* 1 (replicas of one consumer), 2 (members[i] is a duplicate).            *)
(***************************************************************************)
EXTENDS Integers, Sequences, FiniteSets, TLC

\* Bounds of the model. A call with at most one eligible topic is explored
\* with up to MaxMembers members and MaxPartitions partitions, a call with
\* more topics (up to MaxTopics) with up to PassMembers members and
\* PassPartitions partitions a topic.
MaxMembers == 4
MaxPartitions == 6
MaxTopics == 2
PassMembers == 2
PassPartitions == 3

VARIABLES
    member_cnt,             \* parameter member_cnt: size of members[]
    status,                 \* status[i]: classification of members[i], members[i+1]
    eligible_topic_cnt,     \* parameter eligible_topic_cnt
    pc,                     \* "topic" (line 66), "partition" (line 125), "done",
                            \* "crashed" (the process died in the call)
    ti,                     \* index of the outer loop
    eligible_topic,         \* eligible_topics[ti]: [members, metadata, partition_cnt]
    processed,              \* per topic read so far:
                            \* [member_cnt, metadata, partition_cnt]
    different_consumers,    \* right boundary of every group, in resorted_member_lists
    recount_member,         \* number of groups
    resorted_member_lists,  \* the retained members, in sorted order
    sizeof_member_group,    \* size of every group
    next_in_member_group,   \* member cursor of every group
    next,                   \* group cursor
    partition,              \* index of the inner loop
    rkgm,                   \* index in members[] of the member last picked
                            \* (slot 0 before the first pick)
    rkgm_assignment,        \* rkgm_assignment[m]: list of <<topic, partition>> of member m
    ret,                    \* the value returned, "none" before the return
    errstr,                 \* the caller's errstr buffer
    call,                   \* 1 in the first invocation, 2 in a second one
    names,                  \* names[k]: metadata->topic of eligible_topics[k-1]
    first                   \* in a second invocation: what the first one read
                            \* (processed) and gave (rkgm_assignment)

vars == << member_cnt, status, eligible_topic_cnt, pc, ti, eligible_topic,
           processed, different_consumers, recount_member,
           resorted_member_lists, sizeof_member_group, next_in_member_group,
           next, partition, rkgm, rkgm_assignment, ret, errstr,
           call, names, first >>

grouping == << different_consumers, recount_member, resorted_member_lists,
               sizeof_member_group >>

inputs == << member_cnt, status, eligible_topic_cnt >>

\* Which invocation this is and the order of its topics.
calls == << call, names, first >>

\* The call has one return statement, line 148: return 0, which is
\* RD_KAFKA_RESP_ERR_NO_ERROR. No line writes errstr.
result == << ret, errstr >>

----------------------------------------------------------------------------
\* Values of rd_kafka_str_member_is_replicate, as the switch reads them.
Distinct == 0
SameGroup == 1
Duplicate == 2

Members == 0 .. (member_cnt - 1)

\* Lines 122..123 without the memset: the cursors keep what the topic
\* before left in them.
ArrayOfStale(n, v) ==
    [j \in 0 .. (n - 1) |->
        IF j \in DOMAIN next_in_member_group THEN next_in_member_group[j]
        ELSE v]

\* a C array of n ints, all of them set to v
ArrayOf(n, v) == [j \in 0 .. (n - 1) |-> v]

\* a[k] = v, on an array that may not have a[k] yet
Store(a, k, v) == [j \in (DOMAIN a) \cup {k} |-> IF j = k THEN v ELSE a[j]]

\* The loop of lines 86..101 with no case 2: a duplicate is kept like a
\* replica.
RECURSIVE GroupFromKeepDuplicate(_, _, _, _)
GroupFromKeepDuplicate(i, n, st, g) ==
    IF i >= n - 1 THEN g
    ELSE IF st[i] = 0 THEN
        GroupFromKeepDuplicate(i + 1, n, st,
            [different_consumers |->
                 Store(g.different_consumers, g.recount_member,
                       g.resorted_member_lists_pos),
             recount_member |-> g.recount_member + 1,
             resorted_member_lists |->
                 Store(g.resorted_member_lists, g.resorted_member_lists_pos, i),
             resorted_member_lists_pos |-> g.resorted_member_lists_pos + 1])
    ELSE
        GroupFromKeepDuplicate(i + 1, n, st,
            [g EXCEPT !.resorted_member_lists =
                          Store(g.resorted_member_lists,
                                g.resorted_member_lists_pos, i),
                      !.resorted_member_lists_pos = @ + 1])

\* The loop of lines 86..101 with the bodies of case 0 and case 1 swapped:
\* a replica closes the group, a distinct member stays in it.
RECURSIVE GroupFromSwapped(_, _, _, _)
GroupFromSwapped(i, n, st, g) ==
    IF i >= n - 1 THEN g
    ELSE IF st[i] = 1 THEN
        GroupFromSwapped(i + 1, n, st,
            [different_consumers |->
                 Store(g.different_consumers, g.recount_member,
                       g.resorted_member_lists_pos),
             recount_member |-> g.recount_member + 1,
             resorted_member_lists |->
                 Store(g.resorted_member_lists, g.resorted_member_lists_pos, i),
             resorted_member_lists_pos |-> g.resorted_member_lists_pos + 1])
    ELSE IF st[i] = 0 THEN
        GroupFromSwapped(i + 1, n, st,
            [g EXCEPT !.resorted_member_lists =
                          Store(g.resorted_member_lists,
                                g.resorted_member_lists_pos, i),
                      !.resorted_member_lists_pos = @ + 1])
    ELSE GroupFromSwapped(i + 1, n, st, g)

\* The loop of lines 86..101 from index i on. g holds the four locals of the
\* loop: different_consumers, recount_member, resorted_member_lists and
\* resorted_member_lists_pos.
RECURSIVE GroupFrom(_, _, _, _)
GroupFrom(i, n, st, g) ==
    IF i >= n - 1 THEN g
    ELSE IF st[i] = Distinct THEN
        GroupFrom(i + 1, n, st,
            [different_consumers |->
                 Store(g.different_consumers, g.recount_member,
                       g.resorted_member_lists_pos),
             recount_member |-> g.recount_member + 1,
             resorted_member_lists |->
                 Store(g.resorted_member_lists, g.resorted_member_lists_pos, i),
             resorted_member_lists_pos |-> g.resorted_member_lists_pos + 1])
    ELSE IF st[i] = SameGroup THEN
        GroupFrom(i + 1, n, st,
            [g EXCEPT !.resorted_member_lists =
                          Store(g.resorted_member_lists,
                                g.resorted_member_lists_pos, i),
                      !.resorted_member_lists_pos = @ + 1])
    ELSE GroupFrom(i + 1, n, st, g)

\* Lines 78..103: the grouping of the first n sorted members.
Group(n, st) ==
    LET g == GroupFrom(0, n, st,
                 [different_consumers |-> (0 :> -1),
                  recount_member |-> 1,
                  resorted_member_lists |-> << >>,
                  resorted_member_lists_pos |-> 0])
    IN [different_consumers |->
            Store(g.different_consumers, g.recount_member,
                  g.resorted_member_lists_pos),
        recount_member |-> g.recount_member,
        resorted_member_lists |->
            Store(g.resorted_member_lists, g.resorted_member_lists_pos, n - 1),
        resorted_member_lists_pos |-> g.resorted_member_lists_pos + 1]

\* Lines 112..116 counting both ends of a group.
GroupSizesBothEnds(dc, rc) ==
    [group_id \in 0 .. (rc - 1) |-> dc[group_id + 1] - dc[group_id] + 1]

\* Lines 112..116.
GroupSizes(dc, rc) ==
    [group_id \in 0 .. (rc - 1) |-> dc[group_id + 1] - dc[group_id]]

\* A cursor that stops at the last position instead of wrapping around.
AdvanceNoWrap(cursor, modulus) ==
    IF cursor + 1 < modulus THEN cursor + 1 ELSE cursor

\* Line 127 stepping the group cursor by two.
AdvanceTwice(cursor, modulus) == (cursor + 2) % modulus

\* Line 127: the group cursor, next = (next + 1) % recount_member.
AdvanceGroup(cursor, modulus) == (cursor + 1) % modulus

\* Line 128: the member cursor of the group picked,
\* (next_in_member_group[next] + 1) % sizeof_member_group[next].
AdvanceMember(cursor, modulus) == (cursor + 1) % modulus

\* Line 134: the position in resorted_member_lists that is read.
PickPos(dc, nx, nimg) == dc[nx] + 1 + nimg[nx]

\* Line 134 without the base of the group: the position in the group is
\* taken for the position in resorted_member_lists.
PickMemberNoBase(rl, dc, nx, nimg) == rl[nimg[nx]]

\* Line 134 starting the rotation of each topic one position further on
\* than that of the topic before.
PickMemberByTopic(rl, dc, nx, nimg) ==
    rl[(PickPos(dc, nx, nimg) + ti) % Cardinality(DOMAIN rl)]

\* Line 134: the index in members[] of the member picked for this partition.
PickMember(rl, dc, nx, nimg) == rl[PickPos(dc, nx, nimg)]

\* Lines 143..145 putting the new entry at the head of the list.
ListAddFront(list, topic, part) == << << topic, part >> >> \o list

\* rd_kafka_topic_partition_list_add, lines 143..145.
ListAdd(list, topic, part) == Append(list, << topic, part >>)

\* Line 125 with <= for <.
MorePartitionsOffByOne(part, cnt) == part <= cnt

\* Line 125 stopping one partition early.
MorePartitionsSkipLast(part, cnt) == part < cnt - 1

\* Line 125: the inner loop goes on while partition < partition_cnt.
MorePartitions(part, cnt) == part < cnt

----------------------------------------------------------------------------
NoTopic == [members |-> {}, metadata |-> TRUE, partition_cnt |-> 0]
NoCall == [processed |-> << >>, rkgm_assignment |-> << >>]

MemberBound(topic_cnt) == IF topic_cnt <= 1 THEN MaxMembers ELSE PassMembers
PartitionBound(topic_cnt) ==
    IF topic_cnt <= 1 THEN MaxPartitions ELSE PassPartitions

InitCall ==
    /\ eligible_topic_cnt \in 0 .. MaxTopics
    /\ member_cnt \in 1 .. MemberBound(eligible_topic_cnt)
    /\ status \in [0 .. (member_cnt - 2) -> {Distinct, SameGroup, Duplicate}]
    /\ pc = "topic"
    /\ ti = 0
    /\ eligible_topic = NoTopic
    /\ processed = << >>
    /\ different_consumers = << >>
    /\ recount_member = 0
    /\ resorted_member_lists = << >>
    /\ sizeof_member_group = << >>
    /\ next_in_member_group = << >>
    /\ next = -1
    /\ partition = 0
    /\ rkgm = 0
    /\ rkgm_assignment = [m \in Members |-> << >>]
    /\ ret = "none"
    /\ errstr = ""
    /\ call = 1
    /\ names = [k \in 1 .. eligible_topic_cnt |-> k - 1]
    /\ first = NoCall

Init == InitCall

\* Lines 66..123 with next declared static and line 105 only its
\* initialiser: the group cursor keeps its value from topic to topic and
\* from call to call.
TopicBeginKeepNext(elig, meta, cnt, beyond) ==
    /\ pc = "topic"
    /\ ti < eligible_topic_cnt
    /\ LET n == Cardinality(elig)
           g == Group(n, status)
           dc == IF g.recount_member <= n THEN g.different_consumers
                 ELSE Store(g.different_consumers, g.recount_member, beyond)
       IN /\ eligible_topic' =
                 [members |-> elig, metadata |-> meta, partition_cnt |-> cnt]
          /\ processed' =
                 Append(processed, [member_cnt |-> n, metadata |-> meta,
                                    partition_cnt |-> cnt])
          /\ different_consumers' = dc
          /\ recount_member' = g.recount_member
          /\ resorted_member_lists' = g.resorted_member_lists
          /\ sizeof_member_group' = GroupSizes(dc, g.recount_member)
          /\ next_in_member_group' = ArrayOf(g.recount_member, -1)
    /\ next' = next
    /\ partition' = 0
    /\ pc' = "partition"
    /\ UNCHANGED << inputs, calls, ti, rkgm, rkgm_assignment, result >>

\* Lines 66..123 for the topic eligible_topics[ti], which has the members
\* elig subscribed: the grouping and the fresh cursors. meta tells whether
\* eligible_topic->metadata points at the metadata of the topic, cnt is what
\* the loop of line 125 reads as partition_cnt. different_consumers has
\* n + 1 slots (line 78); when line 102 stores beyond them, the slot reads
\* back as `beyond'.
TopicBegin(elig, meta, cnt, beyond) ==
    /\ pc = "topic"
    /\ ti < eligible_topic_cnt
    /\ LET n == Cardinality(elig)
           g == Group(n, status)
           dc == IF g.recount_member <= n THEN g.different_consumers
                 ELSE Store(g.different_consumers, g.recount_member, beyond)
       IN /\ eligible_topic' =
                 [members |-> elig, metadata |-> meta, partition_cnt |-> cnt]
          /\ processed' =
                 Append(processed, [member_cnt |-> n, metadata |-> meta,
                                    partition_cnt |-> cnt])
          /\ different_consumers' = dc
          /\ recount_member' = g.recount_member
          /\ resorted_member_lists' = g.resorted_member_lists
          /\ sizeof_member_group' = GroupSizes(dc, g.recount_member)
          /\ next_in_member_group' = ArrayOf(g.recount_member, -1)
    /\ next' = -1
    /\ partition' = 0
    /\ pc' = "partition"
    /\ UNCHANGED << inputs, calls, ti, rkgm, rkgm_assignment, result >>

\* A turn of the inner loop is defined C when the modulus of line 128 is
\* not 0, line 134 reads a slot of resorted_member_lists that was written,
\* and the member index read is a slot of members[].
TurnDefined ==
    LET nx == AdvanceGroup(next, recount_member)
    IN /\ sizeof_member_group[nx] # 0
       /\ LET nimg == [next_in_member_group EXCEPT
                           ![nx] = AdvanceMember(@, sizeof_member_group[nx])]
              pos == PickPos(different_consumers, nx, nimg)
          IN /\ pos \in DOMAIN resorted_member_lists
             /\ resorted_member_lists[pos] \in Members

\* One turn of the inner loop, lines 125..146.
AssignPartition ==
    /\ pc = "partition"
    /\ MorePartitions(partition, eligible_topic.partition_cnt)
    /\ TurnDefined
    /\ LET nx == AdvanceGroup(next, recount_member)
           nimg == [next_in_member_group EXCEPT
                        ![nx] = AdvanceMember(@, sizeof_member_group[nx])]
           m == PickMember(resorted_member_lists, different_consumers, nx, nimg)
       IN /\ next' = nx
          /\ next_in_member_group' = nimg
          /\ rkgm' = m
          /\ rkgm_assignment' =
                 [rkgm_assignment EXCEPT
                      ![m] = ListAdd(@, names[ti + 1], partition)]
    /\ partition' = partition + 1
    /\ UNCHANGED << inputs, calls, pc, ti, eligible_topic, processed, grouping,
                    result >>

\* The inner loop ends (line 125) and the outer loop steps (line 66).
TopicEnd ==
    /\ pc = "partition"
    /\ ~MorePartitions(partition, eligible_topic.partition_cnt)
    /\ ti' = ti + 1
    /\ pc' = "topic"
    /\ UNCHANGED << inputs, calls, eligible_topic, processed, grouping,
                    next_in_member_group, next, partition, rkgm,
                    rkgm_assignment, result >>

\* The outer loop ends and the call returns 0, line 148.
Return ==
    /\ pc = "topic"
    /\ ti >= eligible_topic_cnt
    /\ pc' = "done"
    /\ ret' = "RD_KAFKA_RESP_ERR_NO_ERROR"
    /\ UNCHANGED << inputs, calls, ti, eligible_topic, processed, grouping,
                    next_in_member_group, next, partition, rkgm,
                    rkgm_assignment, errstr >>

\* What the caller of the assignor hands in: every eligible topic has at
\* least one subscribed member, each of them one of members[], and its
\* metadata with a partition count.
Subscribers == (SUBSET Members) \ {{}}

BeginTopic ==
    \E elig \in Subscribers, cnt \in 0 .. PartitionBound(eligible_topic_cnt) :
        TopicBegin(elig, TRUE, cnt, 0)

Next == BeginTopic \/ AssignPartition \/ TopicEnd \/ Return

Spec == Init /\ [][Next]_vars

\* The call runs on one thread and no line of it blocks, waits or does
\* I/O: a step that can be taken is taken.
SpecFair == Spec /\ WF_vars(Next)

----------------------------------------------------------------------------
(***************************************************************************)
(* The call on input the caller does not hand in today: a topic with no    *)
(* subscribed member, or with no metadata. The code has no check for       *)
(* either, so these runs execute C with undefined behaviour; every such    *)
(* operation is a choice among what a build can do with it.                *)
(***************************************************************************)

\* What an int read from outside an array, or never written, can hold.
StrayInts == -1 .. 1

\* What a member index read from such an int can be.
StrayMembers == -1 .. member_cnt

BeginAnyTopic ==
    \E elig \in SUBSET Members, meta \in BOOLEAN,
       cnt \in 0 .. PassPartitions, beyond \in StrayInts :
        /\ (Cardinality(elig) >= 1 => beyond = 0)
        /\ TopicBegin(elig, meta, cnt, beyond)

\* Line 125 reads eligible_topic->metadata->partition_cnt through a null
\* pointer: the process dies here, or the read yields some int and the
\* loop goes on with it (AssignPartition, TopicEnd).
NullMetadata ==
    /\ pc = "partition"
    /\ ~eligible_topic.metadata
    /\ pc' = "crashed"
    /\ UNCHANGED << inputs, calls, ti, eligible_topic, processed, grouping,
                    next_in_member_group, next, partition, rkgm,
                    rkgm_assignment, result >>

\* A turn of the inner loop that is not defined C. A modulus of 0 kills
\* the process or leaves the dividend; a read outside the written part of
\* resorted_member_lists yields any member index; a member slot outside
\* members[] holds a stray rkgm_assignment pointer, and the add through it
\* kills the process or lands outside every member's list.
AssignUndefined ==
    /\ pc = "partition"
    /\ MorePartitions(partition, eligible_topic.partition_cnt)
    /\ ~TurnDefined
    /\ \/ /\ pc' = "crashed"
          /\ UNCHANGED << next, next_in_member_group, partition, rkgm,
                          rkgm_assignment >>
       \/ LET nx == AdvanceGroup(next, recount_member)
              size == sizeof_member_group[nx]
              nimg == [next_in_member_group EXCEPT
                           ![nx] = IF size = 0 THEN @ + 1
                                   ELSE AdvanceMember(@, size)]
              pos == PickPos(different_consumers, nx, nimg)
          IN \E m \in StrayMembers :
                /\ pos \in DOMAIN resorted_member_lists
                       => m = resorted_member_lists[pos]
                /\ next' = nx
                /\ next_in_member_group' = nimg
                /\ rkgm' = m
                /\ rkgm_assignment' =
                       IF m \in Members
                       THEN [rkgm_assignment EXCEPT
                                 ![m] = ListAdd(@, names[ti + 1], partition)]
                       ELSE rkgm_assignment
                /\ partition' = partition + 1
                /\ pc' = pc
    /\ UNCHANGED << inputs, calls, ti, eligible_topic, processed, grouping,
                    result >>

NextUnchecked ==
    \/ BeginAnyTopic
    \/ AssignPartition
    \/ AssignUndefined
    \/ NullMetadata
    \/ TopicEnd
    \/ Return

InitUnchecked == InitCall /\ member_cnt <= PassMembers

SpecUnchecked == InitUnchecked /\ [][NextUnchecked]_vars

----------------------------------------------------------------------------
(***************************************************************************)
(* Two invocations. When the first call has returned, the group leader     *)
(* runs the assignor again on the same members and the same topics, with   *)
(* fresh assignment lists; eligible_topics[] holds the topics in the order *)
(* `order'. The locals of the function start the second call with what the *)
(* first one left in them.                                                 *)
(***************************************************************************)

\* The orders of the topics of the call: order[k] is the name of
\* eligible_topics[k-1].
TopicOrders ==
    {o \in [1 .. eligible_topic_cnt -> 0 .. (eligible_topic_cnt - 1)] :
        \A j \in 1 .. eligible_topic_cnt, k \in 1 .. eligible_topic_cnt :
            o[j] = o[k] => j = k}

CallAgain(order) ==
    /\ pc = "done"
    /\ call = 1
    /\ call' = 2
    /\ names' = order
    /\ first' = [processed |-> processed, rkgm_assignment |-> rkgm_assignment]
    /\ pc' = "topic"
    /\ ti' = 0
    /\ processed' = << >>
    /\ rkgm_assignment' = [m \in Members |-> << >>]
    /\ ret' = "none"
    /\ UNCHANGED << inputs, eligible_topic, grouping, next_in_member_group,
                    next, partition, rkgm, errstr >>

\* The first call reads any topics; the more topics the call has, the
\* fewer partitions each of them has.
PartitionShare(topic_cnt) == MaxPartitions \div topic_cnt

BeginFirst ==
    /\ call = 1
    /\ ti < eligible_topic_cnt
    /\ \E elig \in Subscribers,
          cnt \in 0 .. PartitionShare(eligible_topic_cnt) :
           TopicBegin(elig, TRUE, cnt, 0)

\* The second call reads, of the topic named names[ti + 1], what the first
\* call read of it: as many subscribed members and the partition count.
BeginAgain ==
    /\ call = 2
    /\ ti < eligible_topic_cnt
    /\ LET was == first.processed[names[ti + 1] + 1]
       IN \E elig \in Subscribers :
             /\ Cardinality(elig) = was.member_cnt
             /\ TopicBegin(elig, was.metadata, was.partition_cnt, 0)

Again == \E order \in TopicOrders : CallAgain(order)

NextAgain ==
    \/ BeginFirst
    \/ BeginAgain
    \/ AssignPartition
    \/ TopicEnd
    \/ Return
    \/ Again

SpecAgain == Init /\ [][NextAgain]_vars

----------------------------------------------------------------------------
(***************************************************************************)
(* What the call has assigned.                                             *)
(***************************************************************************)

\* Where <<t, p>> stands in the assignment lists: <<member, position>>.
Slots(t, p) ==
    {mk \in UNION {{<< m, k >> : k \in 1 .. Len(rkgm_assignment[m])} :
                       m \in Members} :
        rkgm_assignment[mk[1]][mk[2]] = << t, p >>}

\* Every <<topic, partition>> in an assignment list.
Assigned ==
    UNION {{rkgm_assignment[m][k] : k \in 1 .. Len(rkgm_assignment[m])} :
               m \in Members}

\* How many partitions of topic t member m has.
TopicCount(m, t) ==
    Cardinality({k \in 1 .. Len(rkgm_assignment[m]) :
                     rkgm_assignment[m][k][1] = t})

\* The retained members and the members of group g, as line 134 finds them.
Retained ==
    {resorted_member_lists[k] : k \in DOMAIN resorted_member_lists}
GroupPositions(g) ==
    (different_consumers[g] + 1) .. different_consumers[g + 1]
GroupMembers(g) == {resorted_member_lists[k] : k \in GroupPositions(g)}
Groups == 0 .. (recount_member - 1)

\* How many partitions of topic t the members of group g have.
GroupCount(g, t) ==
    Cardinality({mk \in UNION {{<< m, k >> :
                                    k \in 1 .. Len(rkgm_assignment[m])} :
                                   m \in GroupMembers(g)} :
                     rkgm_assignment[mk[1]][mk[2]][1] = t})

\* The inner loop is at work on topic ti.
InTopic == pc = "partition"

\* A topic has been begun; the last one begun is topic CurTopic. The
\* grouping, the cursors and partition are those of this topic until the
\* next topic is begun, and to the end of the call for the last topic.
Begun == Len(processed) >= 1
CurTopic == Len(processed) - 1

\* The number of members the grouping of topic CurTopic walked.
TopicMemberCnt == processed[Len(processed)].member_cnt

Diff(a, b) == IF a >= b THEN a - b ELSE b - a

----------------------------------------------------------------------------
\* C1 Completeness: at no time is a partition index outside 0..P-1 of its
\* topic in an assignment list, and when the call has returned, every
\* partition index 0..P-1 of every topic (each has at least one subscribed
\* member) stands in exactly one member's list, exactly once.
Completeness ==
    /\ \A e \in Assigned :
          /\ e[1] + 1 \in 1 .. Len(processed)
          /\ e[2] \in 0 .. (processed[e[1] + 1].partition_cnt - 1)
    /\ pc = "done" =>
          \A t \in 1 .. Len(processed) :
              processed[t].member_cnt >= 1 =>
                  \A p \in 0 .. (processed[t].partition_cnt - 1) :
                      Cardinality(Slots(t - 1, p)) = 1

\* A call over two topics of two or more partitions each has returned.
CompletenessWitness ==
    /\ pc = "done"
    /\ Len(processed) = 2
    /\ member_cnt = 2
    /\ \A t \in 1 .. 2 : processed[t].partition_cnt >= 2

\* C2 Eligibility: the member a partition step picks is subscribed to the
\* topic of the partition (is in the topic's eligible member list).
EligibleOnly ==
    (InTopic /\ partition > 0) => rkgm \in eligible_topic.members

\* C3 Group fairness: after every partition step of a topic, and so when
\* the topic and the call have ended, the numbers of partitions of the
\* topic that any two groups have differ by at most 1.
GroupFairness ==
    Begun =>
        \A g1 \in Groups, g2 \in Groups :
            Diff(GroupCount(g1, CurTopic), GroupCount(g2, CurTopic)) <= 1

\* Three or more partitions of a topic are handed out among two or more
\* groups, one of them of two members.
GroupFairnessWitness ==
    /\ InTopic
    /\ partition >= 3
    /\ recount_member >= 2
    /\ \E g \in Groups : sizeof_member_group[g] = 2

\* C4 Within-group fairness: after every partition step of a topic, the
\* numbers of partitions of the topic that any two retained members of one
\* group have differ by at most 1.
WithinGroupFairness ==
    Begun =>
        \A g \in Groups :
            \A a \in GroupMembers(g), b \in GroupMembers(g) :
                Diff(TopicCount(a, CurTopic), TopicCount(b, CurTopic)) <= 1

\* A group of two or more members has received three or more partitions.
WithinGroupFairnessWitness ==
    /\ InTopic
    /\ \E g \in Groups :
          /\ sizeof_member_group[g] >= 2
          /\ GroupCount(g, ti) >= 3

\* C5 Scenario A: members C0, C1 classified Distinct, both subscribed to
\* t0 and t1 of 3 partitions each: the call yields C0 = [t0p0, t0p2, t1p1]
\* and C1 = [t0p1, t1p0, t1p2].
ScenarioAInput ==
    /\ member_cnt = 2
    /\ status[0] = Distinct
    /\ processed = << [member_cnt |-> 2, metadata |-> TRUE, partition_cnt |-> 3],
                      [member_cnt |-> 2, metadata |-> TRUE, partition_cnt |-> 3] >>
ScenarioA ==
    (pc = "done" /\ ScenarioAInput) =>
        /\ rkgm_assignment[0] = << << 0, 0 >>, << 0, 2 >>, << 1, 1 >> >>
        /\ rkgm_assignment[1] = << << 0, 1 >>, << 1, 0 >>, << 1, 2 >> >>

\* C6 Double round-robin result: with G groups of sizes S_0..S_(G-1),
\* partition p of the topic is with the retained member at position
\* (p div G) mod S_g of group g = p mod G; and sorted members A-1, A-2, B-1
\* with (A-1, A-2) SameGroup, (A-2, B-1) Distinct and a topic of 4
\* partitions give A-1 = [p0], A-2 = [p2], B-1 = [p1, p3].
ScenarioBInput ==
    /\ member_cnt = 3
    /\ status[0] = SameGroup
    /\ status[1] = Distinct
    /\ processed = << [member_cnt |-> 3, metadata |-> TRUE, partition_cnt |-> 4] >>
TopicIsEmpty(t) == processed[t].member_cnt = 0 /\ processed[t].metadata
EmptyEligibilityNoOp ==
    /\ \A e \in Assigned :
          e[1] + 1 \in 1 .. Len(processed) => ~TopicIsEmpty(e[1] + 1)
    /\ (Len(processed) = ti + 1 /\ TopicIsEmpty(ti + 1)) =>
          /\ pc # "crashed"
          /\ partition = 0
          /\ rkgm \in Members

\* C8 Invalid metadata: a call that met a topic with no partition count
\* ends with an error result and a message, and with no member's
\* assignment list extended.
MetMissingMetadata == \E t \in 1 .. Len(processed) : ~processed[t].metadata
InvalidMetadataReported ==
    (MetMissingMetadata /\ pc \in {"done", "crashed"}) =>
        /\ pc = "done"
        /\ ret \notin {"none", "RD_KAFKA_RESP_ERR_NO_ERROR"}
        /\ errstr # ""
        /\ \A m \in Members : rkgm_assignment[m] = << >>

\* C9 Duplicate handling: for every pair (members[i], members[i+1]) of the
\* n members a topic's grouping walks that is classified Duplicate,
\* members[i] is not retained and has no partition of the topic, and
\* members[i+1] is retained unless it is the left member of a Duplicate
\* pair itself; n minus the number of Duplicate pairs members are retained;
\* and every partition handed out so far is with exactly one member, a
\* retained one.
DuplicatePairs(n) == {i \in 0 .. (n - 2) : status[i] = Duplicate}
DuplicateHandling ==
    Begun =>
        LET n == TopicMemberCnt
        IN /\ \A i \in DuplicatePairs(n) :
                 /\ i \notin Retained
                 /\ TopicCount(i, CurTopic) = 0
                 /\ (i + 1 \in Retained) <=> (i + 1 \notin DuplicatePairs(n))
           /\ Cardinality(Retained) = n - Cardinality(DuplicatePairs(n))
           /\ Cardinality(DOMAIN resorted_member_lists) = Cardinality(Retained)
           /\ \A p \in 0 .. (partition - 1) :
                 /\ Cardinality(Slots(CurTopic, p)) = 1
                 /\ \A mk \in Slots(CurTopic, p) : mk[1] \in Retained

\* X-1, X-1dup, Y-1 with Duplicate, then Distinct: two or more partitions
\* are handed out.
DuplicateHandlingWitness ==
    /\ InTopic
    /\ TopicMemberCnt = 3
    /\ status[0] = Duplicate
    /\ status[1] = Distinct
    /\ partition >= 2
    /\ partition = eligible_topic.partition_cnt

\* C10 Uniform distribution: when all members have the same subscriptions
\* (every topic of the call has all of them subscribed), the total numbers
\* of partitions of any two members differ by at most 1 after the call.
SameSubscriptions ==
    \A t \in 1 .. Len(processed) : processed[t].member_cnt = member_cnt
UniformTotals ==
    (pc = "done" /\ SameSubscriptions) =>
        \A a \in Members, b \in Members :
            Diff(Len(rkgm_assignment[a]), Len(rkgm_assignment[b])) <= 1

\* C11 Degenerate reduction: when every adjacent pair of the n members a
\* topic's grouping walks is classified Distinct, there are n groups, each
\* of size 1, and every partition p of the topic handed out so far is with
\* exactly one member, members[p mod n]: single-level round robin over the
\* members in sorted order.
AllDistinct(n) == \A i \in 0 .. (n - 2) : status[i] = Distinct
FirstRetained(n) ==
    CHOOSE i \in 0 .. (n - 1) :
        /\ i = n - 1 \/ status[i] # Duplicate
        /\ \A j \in 0 .. (i - 1) : status[j] = Duplicate
HandedOut(t) ==
    IF t = Len(processed) THEN partition ELSE processed[t].partition_cnt
Owners(t, p) ==
    {m \in Members :
        \E k \in 1 .. Len(rkgm_assignment[m]) :
            rkgm_assignment[m][k] = << t, p >>}
DistinctPairs(n) == {i \in 0 .. (n - 2) : status[i] = Distinct}
GroupOf(m) == CHOOSE g \in Groups : m \in GroupMembers(g)
GroupingBoundaries ==
    Begun =>
        LET n == TopicMemberCnt
            last == Cardinality(DOMAIN resorted_member_lists) - 1
        IN /\ recount_member = 1 + Cardinality(DistinctPairs(n))
           /\ DOMAIN resorted_member_lists = 0 .. last
           /\ \A j \in 0 .. last, k \in 0 .. last :
                 j < k => resorted_member_lists[j] < resorted_member_lists[k]
           /\ different_consumers[0] = -1
           /\ different_consumers[recount_member] = last
           /\ \A g \in Groups : different_consumers[g] < different_consumers[g + 1]
           /\ \A m \in Retained :
                 Cardinality({g \in Groups : m \in GroupMembers(g)}) = 1
           /\ \A a \in Retained, b \in Retained :
                 a < b =>
                     (GroupOf(a) = GroupOf(b)
                          <=> \A i \in a .. (b - 1) : status[i] # Distinct)
           /\ resorted_member_lists[last] = n - 1
           /\ n - 1 \in GroupMembers(recount_member - 1)

\* Four members: a replica pair, a boundary, then a duplicate next to the
\* final member.
GroupingBoundariesWitness ==
    /\ Begun
    /\ TopicMemberCnt = 4
    /\ status[0] = SameGroup
    /\ status[1] = Distinct
    /\ status[2] = Duplicate

\* C15 Non-empty groups and in-range indexing: for every topic with n >= 1
\* members walked and every classification of their pairs, there is a
\* group, every group size is >= 1, the sizes sum to the number of retained
\* members, the turn of the inner loop that comes next and the turn that
\* was made last look up a position in 0..retained-1 of the retained
\* list, and the member index read there is in 0..n-1.
RECURSIVE SizesUpTo(_)
SizesUpTo(g) == IF g < 0 THEN 0 ELSE sizeof_member_group[g] + SizesUpTo(g - 1)
RetainedCnt == Cardinality(DOMAIN resorted_member_lists)
InRange(nx, nimg) ==
    /\ nx \in Groups
    /\ nimg[nx] \in 0 .. (sizeof_member_group[nx] - 1)
    /\ PickPos(different_consumers, nx, nimg) \in 0 .. (RetainedCnt - 1)
    /\ PickPos(different_consumers, nx, nimg) \in DOMAIN resorted_member_lists
    /\ resorted_member_lists[PickPos(different_consumers, nx, nimg)]
           \in 0 .. (TopicMemberCnt - 1)
InRangeIndexing ==
    Begun =>
        /\ recount_member >= 1
        /\ \A g \in Groups : sizeof_member_group[g] >= 1
        /\ SizesUpTo(recount_member - 1) = RetainedCnt
        /\ (InTopic /\ MorePartitions(partition, eligible_topic.partition_cnt)) =>
              LET nx == AdvanceGroup(next, recount_member)
              IN /\ nx \in Groups
                 /\ InRange(nx, [next_in_member_group EXCEPT
                                    ![nx] = AdvanceMember(@, sizeof_member_group[nx])])
        /\ partition >= 1 =>
              /\ InRange(next, next_in_member_group)
              /\ rkgm = PickMember(resorted_member_lists, different_consumers,
                                   next, next_in_member_group)
              /\ rkgm \in 0 .. (TopicMemberCnt - 1)

\* A Duplicate next to a Distinct boundary on either side, and the rotation
\* has gone through every group more than once.
InRangeIndexingWitness ==
    /\ Begun
    /\ TopicMemberCnt = 4
    /\ status[0] = Duplicate
    /\ status[1] = Distinct
    /\ status[2] = Duplicate
    /\ partition >= 5

\* C17 Append-only output: a turn of the inner loop appends the entry
\* <<topic, partition>> of the turn to the assignment list of exactly one
\* member and leaves every other list and all earlier entries as they
\* were, and no other step changes a list; and at all times, in every
\* member's list, an entry of an earlier-processed topic stands before
\* those of a later one and the entries of one topic stand in strictly
\* increasing partition order.
AppendStep ==
    IF pc = "partition" /\ pc' = "partition"
    THEN /\ \E m \in Members :
               rkgm_assignment' =
                   [rkgm_assignment EXCEPT
                        ![m] = Append(@, << names[ti + 1], partition >>)]
         /\ Cardinality({m \in Members :
                             rkgm_assignment'[m] # rkgm_assignment[m]}) = 1
    ELSE rkgm_assignment' = rkgm_assignment
AssignmentOrder ==
    \A m \in Members :
        \A j \in 1 .. Len(rkgm_assignment[m]), k \in 1 .. Len(rkgm_assignment[m]) :
            j < k =>
                \/ rkgm_assignment[m][j][1] < rkgm_assignment[m][k][1]
                \/ /\ rkgm_assignment[m][j][1] = rkgm_assignment[m][k][1]
                   /\ rkgm_assignment[m][j][2] < rkgm_assignment[m][k][2]
AppendOnlyOutput == [][AppendStep]_vars /\ []AssignmentOrder

\* A member has two partitions of the first topic and then one of the
\* second, the other member has a list of its own.
AppendOnlyOutputWitness ==
    \E m \in Members, o \in Members :
        /\ m # o
        /\ Len(rkgm_assignment[o]) >= 1
        /\ Len(rkgm_assignment[m]) >= 3
        /\ rkgm_assignment[m][1][1] = 0
        /\ rkgm_assignment[m][2][1] = 0
        /\ rkgm_assignment[m][3][1] = 1

\* C18 Totality: a call in which every topic has at least one subscribed
\* member and a partition count >= 0 comes to its return; it returns
\* RD_KAFKA_RESP_ERR_NO_ERROR with as many entries in the assignment lists
\* as the topics have partitions, each turn of the inner loop having added
\* one; and a topic with no partitions goes from line 125 straight to the
\* next topic, with every list as it was and no entry of its own.
RECURSIVE PartitionsUpTo(_)
PartitionsUpTo(t) ==
    IF t < 1 THEN 0 ELSE processed[t].partition_cnt + PartitionsUpTo(t - 1)
RECURSIVE EntriesUpTo(_)
EntriesUpTo(m) ==
    IF m < 0 THEN 0 ELSE Len(rkgm_assignment[m]) + EntriesUpTo(m - 1)
Entries == EntriesUpTo(member_cnt - 1)
Returned ==
    pc = "done" =>
        /\ ret = "RD_KAFKA_RESP_ERR_NO_ERROR"
        /\ Len(processed) = eligible_topic_cnt
        /\ Entries = PartitionsUpTo(Len(processed))
        /\ \A t \in 1 .. Len(processed), m \in Members :
              processed[t].partition_cnt = 0 => TopicCount(m, t - 1) = 0
CountedStep ==
    /\ Entries' = IF pc = "partition" /\ pc' = "partition"
                  THEN Entries + 1 ELSE Entries
    /\ (pc = "partition" /\ eligible_topic.partition_cnt = 0) =>
          /\ pc' = "topic"
          /\ rkgm_assignment' = rkgm_assignment
Totality == <>(pc = "done") /\ []Returned /\ [][CountedStep]_vars

\* The call has returned from two topics, the first with no partitions
\* and the second with three.
TotalityWitness ==
    /\ pc = "done"
    /\ Len(processed) = 2
    /\ processed[1].partition_cnt = 0
    /\ processed[2].partition_cnt = 3
    /\ Entries = 3

\* C12 Determinism: a second call on the same members, the same
\* classifications, the same topics in the same order, each with the
\* member count and partition count it had, builds every member's list
\* entry by entry as the first call did: at every moment each list is the
\* beginning of the list of the first call, and at the return it is equal
\* to it.
SameOrder == \A k \in 1 .. eligible_topic_cnt : names[k] = k - 1
IsPrefix(s, t) == Len(s) <= Len(t) /\ s = SubSeq(t, 1, Len(s))
Determinism ==
    (call = 2 /\ SameOrder) =>
        /\ \A m \in Members :
              IsPrefix(rkgm_assignment[m], first.rkgm_assignment[m])
        /\ pc = "done" => rkgm_assignment = first.rkgm_assignment

\* The second call has returned from two topics with partitions, a group
\* of two members among them.
DeterminismWitness ==
    /\ call = 2
    /\ pc = "done"
    /\ SameOrder
    /\ Len(processed) = 2
    /\ member_cnt = 2
    /\ status[0] = SameGroup
    /\ \A t \in 1 .. 2 : processed[t].member_cnt = 2
    /\ \A t \in 1 .. 2 : processed[t].partition_cnt >= 1

\* C16 Topic-order independence: a second call on the same topics in any
\* order has, at its return, given every member the same set of
\* <<topic, partition>> pairs as the first call, and the entries of one
\* topic stand in a member's list in the same order; only how the entries
\* of different topics follow one another differs.
OfTopic(list, t) == SelectSeq(list, LAMBDA e : e[1] = t)
EntrySet(list) == {list[k] : k \in 1 .. Len(list)}
TopicOrderIndependence ==
    (call = 2 /\ pc = "done") =>
        \A m \in Members :
            /\ EntrySet(rkgm_assignment[m]) = EntrySet(first.rkgm_assignment[m])
            /\ Len(rkgm_assignment[m]) = Len(first.rkgm_assignment[m])
            /\ \A t \in 0 .. (eligible_topic_cnt - 1) :
                  OfTopic(rkgm_assignment[m], t)
                      = OfTopic(first.rkgm_assignment[m], t)

\* The second call took two topics in the other order and has returned; a
\* member's list holds the same entries as after the first call, in
\* another order.
TopicOrderIndependenceWitness ==
    /\ call = 2
    /\ pc = "done"
    /\ eligible_topic_cnt = 2
    /\ names[1] = 1
    /\ names[2] = 0
    /\ \E m \in Members :
          /\ Len(rkgm_assignment[m]) >= 2
          /\ rkgm_assignment[m] # first.rkgm_assignment[m]

====
